---- MODULE Spec2Model ----
(***************************************************************************)
(* The environmental data loader of environmental-assessment-tool:         *)
(* EnvironmentalDataLoader.tsx (the aggregation run, its source adapters,  *)
(* the distance filter, the risk tiers and the duplicate filter).          *)
(*                                                                         *)
(* Units.  Distances are integers in hundredths of a mile (0.1 mile = 10,  *)
(* 15 miles = 1500).  Coordinates are integers on a local grid whose unit  *)
(* is one hundredth of a mile of arc along either axis, so that the great  *)
(* circle distance of two grid points is the length of their separation.   *)
(* A JavaScript value that is not a number under arithmetic (undefined, a  *)
(* string such as "8.2 miles from search location", NaN) is the value NaN. *)
(* Indices are 1-based; findIndex's -1 is 0.                               *)
(***************************************************************************)
EXTENDS Integers, Sequences, FiniteSets, TLC

\* ------------------------------------------------------------- bounds
\* Aggregation runs started in one behaviour.
MaxRuns == 2
\* Data rows of a bulk extract fetched by a run.
MaxRows == 2
\* Length of the lists the adapters and the duplicate filter are applied to.
MaxList == 3
\* Characters of a line handed to parseCSVLine.
MaxChars == 5
\* Calls of handleLocationFound.
MaxFound == 3
\* Selections of a test location.
MaxSelects == 5

\* -------------------------------------------------- program constants
\* if (distance <= 15)
TriRadius == 1500
\* distance < 1 ? 'High'
TriHigh == 100
\* distance < 5 ? 'Medium'
TriMedium == 500
\* .slice(0, 20)
TriCap == 20
\* processed < 1000
TriScanCap == 1000
\* Math.abs(f.distance - facility.distance) < 0.1
DedupeTolerance == 10
\* site.distance <= 2.0
CerclisRadius == 200
\* distance < 0.5 ? 'High'
CerclisHigh == 50
\* distance < 1.0 ? 'Medium'
CerclisMedium == 100
\* .slice(0, 10)
CerclisCap == 10
\* site.distance <= 1.0
LustRadius == 100
\* distance < 0.25 ? 'High'
LustHigh == 25
\* distance < 0.5 ? 'Medium'
LustMedium == 50
\* .slice(0, 5)
LustCap == 5
\* The source adapters of one aggregation run: the bulk extract and the API.
NumAdapters == 2
\* distance < 0.5 ? 'High', of the remote query adapter for TRI
TriApiHigh == 50
\* distance < 1.5 ? 'Medium', of the remote query adapter for TRI
TriApiMedium == 150
\* (data || []).slice(0, 10) of the API function
HandlerCap == 10
\* const radius = 5; // miles
HandlerRadius == 500
\* The upstream services the API function queries.
HandlerSources == 3
\* echoData.Results.slice(0, 5)
EchoCap == 5
\* The upstream services the earlier API function queries: FRS and ECHO.
EpaApiSources == 2

\* ---------------------------------------------------- JavaScript values
\* Not a number: what isNaN() is true of, and what every comparison is false of.
NaN == -999999
\* An empty table cell or an absent field: falsy, and '0' under || '0'.
Blank == -999998

IsNumber(x) == x # NaN /\ x # Blank

Abs(x) == IF x < 0 THEN -x ELSE x

Max(a, b) == IF a >= b THEN a ELSE b

Min(a, b) == IF a <= b THEN a ELSE b

\* parseFloat of a cell: the number a numeric text denotes, NaN otherwise.
parseFloat(cell) == IF IsNumber(cell) THEN cell ELSE NaN

\* cell || '0'
OrZero(cell) == IF cell = Blank THEN 0 ELSE cell

\* a <= b of JavaScript numbers: false when either is NaN.
LessEq(a, b) == IsNumber(a) /\ IsNumber(b) /\ a <= b

\* a < b of JavaScript numbers: false when either is NaN.
Less(a, b) == IsNumber(a) /\ IsNumber(b) /\ a < b

\* Array.prototype.slice(0, n)
Slice(s, n) == SubSeq(s, 1, Min(Len(s), n))

RECURSIVE Pick(_, _, _)
\* The elements of s whose index is in K, in order, from index i on.
Pick(s, K, i) ==
  IF i > Len(s) THEN <<>>
  ELSE (IF i \in K THEN <<s[i]>> ELSE <<>>) \o Pick(s, K, i + 1)

\* Array.prototype.findIndex, given hits, the indices whose element passes
\* the test: the first of them, 0 for none.
findIndex(hits) ==
  IF hits = {} THEN 0 ELSE CHOOSE i \in hits : \A j \in hits : i <= j

RECURSIVE SqrtBetween(_, _, _)
\* The integer square root of n, known to lie in lo..hi.
SqrtBetween(n, lo, hi) ==
  IF lo >= hi THEN lo
  ELSE LET mid == (lo + hi + 1) \div 2
       IN IF mid * mid <= n THEN SqrtBetween(n, mid, hi)
          ELSE SqrtBetween(n, lo, mid - 1)

\* calculateDistance: the great circle distance of (lat1, lon1) and
\* (lat2, lon2), on the local grid the length of their separation, rounded
\* down to a hundredth of a mile; NaN when a coordinate is NaN.
calculateDistance(lat1, lon1, lat2, lon2) ==
  IF ~(IsNumber(lat1) /\ IsNumber(lon1) /\ IsNumber(lat2) /\ IsNumber(lon2))
  THEN NaN
  ELSE LET dLat == lat2 - lat1
           dLon == lon2 - lon1
           a == dLat * dLat + dLon * dLon
       IN SqrtBetween(a, 0, Abs(dLat) + Abs(dLon))

\* ------------------------------------- calculateDistance, digit by digit
\* Numbers held to four decimal digits: x stands for x / FixScale, and every
\* operation rounds its result to the nearest such number, as every
\* operation on a double rounds to the nearest double.
FixScale == 10 ^ 4

\* Math.PI
PiFix == 31416

\* const R = 3959
EarthRadius == 3959

\* p / q rounded to the nearest integer, halves away from zero.
RoundDiv(p, q) ==
  IF p >= 0 THEN (2 * p + q) \div (2 * q) ELSE -((2 * (-p) + q) \div (2 * q))

\* x * y
FixMul(x, y) == RoundDiv(x * y, FixScale)

\* degrees * Math.PI / 180
Radians(degrees) == RoundDiv(degrees * PiFix, 180)

RECURSIVE Series(_, _, _, _)
\* The sum of the terms of a sine or cosine series from term on, the next
\* term being -term * x2 / (k * (k + 1)); for |x| <= Math.PI / 2.
Series(x2, term, k, sum) ==
  IF term = 0 THEN sum
  ELSE LET next == -RoundDiv(FixMul(term, x2), k * (k + 1))
       IN Series(x2, next, k + 2, sum + term)

\* Math.sin
FixSin(x) == Series(FixMul(x, x), x, 2, 0)

\* Math.cos
FixCos(x) == Series(FixMul(x, x), FixScale, 1, 0)

\* Math.sqrt: NaN of a negative number.
FixSqrt(x) ==
  IF ~IsNumber(x) \/ x < 0 THEN NaN
  ELSE SqrtBetween(x * FixScale, 0, Max(x, FixScale))

RECURSIVE AngleBetween(_, _, _, _)
\* The angle in lo..hi whose tangent is y / x, for y >= 0 and x >= 0.
AngleBetween(y, x, lo, hi) ==
  IF lo >= hi THEN lo
  ELSE LET mid == (lo + hi + 1) \div 2
       IN IF FixSin(mid) * x <= FixCos(mid) * y
          THEN AngleBetween(y, x, mid, hi)
          ELSE AngleBetween(y, x, lo, mid - 1)

\* Math.atan2 of two square roots: NaN when either is.
FixAtan2(y, x) ==
  IF ~IsNumber(y) \/ ~IsNumber(x) THEN NaN
  ELSE AngleBetween(y, x, 0, RoundDiv(PiFix, 2))

\* const a = Math.sin(dLat/2) * Math.sin(dLat/2) +
\*           Math.cos(lat1 * Math.PI / 180) * Math.cos(lat2 * Math.PI / 180) *
\*           Math.sin(dLon/2) * Math.sin(dLon/2)
HaversineA(lat1, lon1, lat2, lon2) ==
  LET sLat == FixSin(RoundDiv(Radians(lat2 - lat1), 2))
      sLon == FixSin(RoundDiv(Radians(lon2 - lon1), 2))
  IN FixMul(sLat, sLat)
       + FixMul(FixMul(FixMul(FixCos(Radians(lat1)), FixCos(Radians(lat2))),
                       sLon), sLon)

\* calculateDistance of coordinates in whole degrees, in miles / FixScale:
\* c = 2 * Math.atan2(Math.sqrt(a), Math.sqrt(1 - a)); return R * c
Haversine(lat1, lon1, lat2, lon2) ==
  LET a == HaversineA(lat1, lon1, lat2, lon2)
      c == FixAtan2(FixSqrt(a), FixSqrt(FixScale - a))
  IN IF IsNumber(c) THEN EarthRadius * 2 * c ELSE NaN

\* sites.sort((a, b) => a.distance - b.distance) of sites with numeric
\* distances: a stable sort, each element placed after those not farther.
RECURSIVE SortByDistance(_)
SortByDistance(s) ==
  IF s = <<>> THEN <<>>
  ELSE LET x == s[Len(s)]
           t == SortByDistance(SubSeq(s, 1, Len(s) - 1))
           k == Cardinality({i \in 1..Len(t) : t[i].distance <= x.distance})
       IN SubSeq(t, 1, k) \o <<x>> \o SubSeq(t, k + 1, Len(t))

\* ------------------------------------------------------------ risk tiers
RiskLevels == {"High", "Medium", "Low"}

\* TriRisk, had its thresholds been inclusive.
TriRiskInclusive(distance) ==
  IF LessEq(distance, TriHigh) THEN "High"
  ELSE IF LessEq(distance, TriMedium) THEN "Medium" ELSE "Low"

\* distance < 1 ? 'High' : distance < 5 ? 'Medium' : 'Low'
TriRisk(distance) ==
  IF Less(distance, TriHigh) THEN "High"
  ELSE IF Less(distance, TriMedium) THEN "Medium" ELSE "Low"

\* distance < 0.5 ? 'High' : distance < 1.5 ? 'Medium' : 'Low', of the remote
\* query adapter for TRI that loadTRIData replaced
TriApiRisk(distance) ==
  IF Less(distance, TriApiHigh) THEN "High"
  ELSE IF Less(distance, TriApiMedium) THEN "Medium" ELSE "Low"

\* distance < 0.5 ? 'High' : distance < 1.0 ? 'Medium' : 'Low'
CerclisRisk(distance) ==
  IF Less(distance, CerclisHigh) THEN "High"
  ELSE IF Less(distance, CerclisMedium) THEN "Medium" ELSE "Low"

\* distance < 0.25 ? 'High' : distance < 0.5 ? 'Medium' : 'Low'
LustRisk(distance) ==
  IF Less(distance, LustHigh) THEN "High"
  ELSE IF Less(distance, LustMedium) THEN "Medium" ELSE "Low"

\* ------------------------------------------------------- parseCSVLine
\* A text is the sequence of its characters.
RECURSIVE TrimStart(_)
TrimStart(text) ==
  IF text # <<>> /\ text[1] = " " THEN TrimStart(Tail(text)) ELSE text

RECURSIVE TrimEnd(_)
TrimEnd(text) ==
  IF text # <<>> /\ text[Len(text)] = " "
  THEN TrimEnd(SubSeq(text, 1, Len(text) - 1)) ELSE text

\* String.prototype.trim
Trim(text) == TrimEnd(TrimStart(text))

\* .replace(/^"|"$/g, ''): without a quote at its start and one at its end.
Unquote(text) ==
  LET rest == IF text # <<>> /\ text[1] = "\"" THEN Tail(text) ELSE text
  IN IF rest # <<>> /\ rest[Len(rest)] = "\""
     THEN SubSeq(rest, 1, Len(rest) - 1) ELSE rest

RECURSIVE SplitAtEveryComma(_)
\* parseCSVLine, had it split at every comma and dropped the quotes.
SplitAtEveryComma(line) ==
  LET commas == {i \in 1..Len(line) : line[i] = ","}
      first == CHOOSE i \in commas : \A j \in commas : i <= j
      Field(text) == Unquote(Trim(SelectSeq(text, LAMBDA c : c # "\"")))
  IN IF commas = {} THEN <<Field(line)>>
     ELSE <<Field(SubSeq(line, 1, first - 1))>>
          \o SplitAtEveryComma(SubSeq(line, first + 1, Len(line)))

RECURSIVE ParseFrom(_, _, _, _, _)
\* The loop of parseCSVLine from character i on, and the push after it.
ParseFrom(line, i, result, current, inQuotes) ==
  IF i > Len(line) THEN Append(result, Unquote(Trim(current)))
  ELSE LET char == line[i]
       IN IF char = "\""
          THEN ParseFrom(line, i + 1, result, current, ~inQuotes)
          ELSE IF char = "," /\ ~inQuotes
          THEN ParseFrom(line, i + 1, Append(result, Unquote(Trim(current))),
                         <<>>, inQuotes)
          ELSE ParseFrom(line, i + 1, result, Append(current, char), inQuotes)

parseCSVLine(line) == ParseFrom(line, 1, <<>>, <<>>, FALSE)

\* ------------------------------------------------- the bulk extract (TRI)
\* The header line of an extract; a data line is <<name, latitude, longitude>>,
\* possibly cut short, and <<>> is a blank line.
HeaderLine == <<"FACILITY NAME", "LATITUDE", "LONGITUDE">>

\* headers.findIndex(h => h.includes(token))
HeaderIndex(headers, token) ==
  findIndex({i \in 1..Len(headers) : headers[i] = token})

\* values[index], undefined past the end of the row.
Cell(values, index) ==
  IF index \in 1..Len(values) THEN values[index] ELSE Blank

\* values[facilityNameIndex] || 'Unknown Facility'
FacilityName(values, index) ==
  IF index \in 1..Len(values) /\ values[index] # "" THEN values[index]
  ELSE "Unknown Facility"

\* The body of the row loop: the site a data line yields, <<>> when the
\* line is skipped or the facility is more than 15 miles away.
TriRowSites(values, headers, location) ==
  LET facilityNameIndex == HeaderIndex(headers, "FACILITY NAME")
      latIndex == HeaderIndex(headers, "LATITUDE")
      lonIndex == HeaderIndex(headers, "LONGITUDE")
      facilityLat == parseFloat(OrZero(Cell(values, latIndex)))
      facilityLon == parseFloat(OrZero(Cell(values, lonIndex)))
      distance == calculateDistance(location.lat, location.lng,
                                    facilityLat, facilityLon)
  IN IF Len(values) < Max(Max(latIndex, lonIndex), facilityNameIndex)
     THEN <<>>
     ELSE IF facilityLat = 0 \/ facilityLon = 0
             \/ facilityLat = NaN \/ facilityLon = NaN
     THEN <<>>
     ELSE IF LessEq(distance, TriRadius)
     THEN << [name |-> FacilityName(values, facilityNameIndex),
              type |-> "TRI - Toxic Release Inventory",
              distance |-> distance,
              riskLevel |-> TriRisk(distance)] >>
     ELSE <<>>

\* TriExamined, had the loop ended at the first line cut short.
TriExaminedToShortLine(lines, i, processed) ==
  {k \in i..Min(Len(lines), i + (TriScanCap - processed) - 1) :
     \A j \in i..k : Len(lines[j]) >= Len(lines[1])}

\* TriExamined, had the loop not tested processed.
TriExaminedUncapped(lines, i, processed) == i..Len(lines)

\* for (let i = 1; i < lines.length && processed < 1000; i++) { processed++;
\* ... }: the values i takes from its value i on, processed rows having been
\* examined.  processed++ is the first statement of the body, executed for
\* every value of i whether or not the row is then skipped, so the loop ends
\* at the end of the lines or TriScanCap - processed values after i.
TriExamined(lines, i, processed) ==
  i..Min(Len(lines), i + (TriScanCap - processed) - 1)

RECURSIVE TriSitesAt(_, _, _)
\* triSites.push(site) for the lines at the indices K, in the order of the
\* loop.
TriSitesAt(lines, K, location) ==
  IF K = {} THEN <<>>
  ELSE LET k == CHOOSE i \in K : \A j \in K : i <= j
       IN TriRowSites(lines[k], lines[1], location)
          \o TriSitesAt(lines, K \ {k}, location)

\* The row loop: the sites the lines from index i on yield, processed rows
\* having been examined.
TriScan(lines, i, processed, location) ==
  TriSitesAt(lines,
             {k \in TriExamined(lines, i, processed) :
                TriRowSites(lines[k], lines[1], location) # <<>>},
             location)

\* The value of processed when the row loop ends.
TriProcessed(lines, i, processed) ==
  processed + Cardinality(TriExamined(lines, i, processed))

\* loadTRIData once the fetch has settled with response: the sites it
\* returns, or the error it throws.
loadTRIData(location, response) ==
  IF location.state = ""
  THEN [ok |-> TRUE, sites |-> <<>>, error |-> ""]
  ELSE IF response.kind = "reject"
  THEN [ok |-> FALSE, sites |-> <<>>, error |-> "Failed to fetch"]
  ELSE IF response.kind = "status"
  THEN [ok |-> FALSE, sites |-> <<>>, error |-> "TRI file not found"]
  ELSE LET lines == SelectSeq(response.lines, LAMBDA line : line # <<>>)
       IN IF Len(lines) < 2
          THEN [ok |-> FALSE, sites |-> <<>>,
                error |-> "TRI file appears to be empty or invalid"]
          ELSE [ok |-> TRUE,
                sites |-> Slice(SortByDistance(TriScan(lines, 2, 0, location)),
                                TriCap),
                error |-> ""]

\* ------------------------------------------------- the duplicate filter
\* SameFacility, had the tolerance been inclusive.
SameFacilityInclusive(f, facility) ==
  /\ f.name = facility.name
  /\ LessEq(IF IsNumber(f.distance) /\ IsNumber(facility.distance)
            THEN Abs(f.distance - facility.distance) ELSE NaN,
            DedupeTolerance)

\* f.name === facility.name && Math.abs(f.distance - facility.distance) < 0.1
SameFacility(f, facility) ==
  /\ f.name = facility.name
  /\ Less(IF IsNumber(f.distance) /\ IsNumber(facility.distance)
          THEN Abs(f.distance - facility.distance) ELSE NaN,
          DedupeTolerance)

\* uniqueToxicFacilities, had it dropped nothing.
KeepAll(toxicFacilities) == toxicFacilities

\* toxicFacilities.filter((facility, index, self) =>
\*   index === self.findIndex(f => ...))
uniqueToxicFacilities(toxicFacilities) ==
  LET self == toxicFacilities
      kept == {index \in 1..Len(self) :
                 index = findIndex({i \in 1..Len(self) :
                                      SameFacility(self[i], self[index])})}
  IN Pick(self, kept, 1)

\* ---------------------------------------- the remote query adapters
\* A row of the CERCLIS or LUST service is [name, lat, lon]: its SITE_NAME or
\* FACILITY_NAME ("" when absent), its LATITUDE and its LONGITUDE cells.
\* site.SITE_NAME && site.LATITUDE && site.LONGITUDE
CerclisHasFields(site) ==
  site.name # "" /\ site.lat # Blank /\ site.lon # Blank

\* .map(site => ({... distance, riskLevel ...})) of the CERCLIS adapter
CerclisSite(site, location) ==
  LET distance == calculateDistance(location.lat, location.lng,
                                    parseFloat(site.lat), parseFloat(site.lon))
  IN [name |-> site.name,
      type |-> "CERCLIS Contaminated Site",
      distance |-> distance,
      riskLevel |-> CerclisRisk(distance)]

\* CerclisWithinRadius, had the comparison been strict.
CerclisWithinRadiusStrict(sites) ==
  SelectSeq(sites, LAMBDA site : Less(site.distance, CerclisRadius))

\* .filter(site => site.distance <= 2.0)
CerclisWithinRadius(sites) ==
  SelectSeq(sites, LAMBDA site : LessEq(site.distance, CerclisRadius))

\* The contamination sites the CERCLIS adapter makes of the service's rows.
CerclisSites(cerclisData, location) ==
  LET rows == SelectSeq(cerclisData, CerclisHasFields)
      sites == [i \in 1..Len(rows) |-> CerclisSite(rows[i], location)]
  IN Slice(SortByDistance(CerclisWithinRadius(sites)), CerclisCap)

\* site.LATITUDE && site.LONGITUDE
LustHasFields(site) == site.lat # Blank /\ site.lon # Blank

\* .map(site => ({... distance, riskLevel ...})) of the LUST adapter
LustSite(site, location) ==
  LET distance == calculateDistance(location.lat, location.lng,
                                    parseFloat(site.lat), parseFloat(site.lon))
  IN [name |-> IF site.name # "" THEN site.name
               ELSE "Underground Storage Tank Site",
      type |-> "LUST - Petroleum Contamination",
      distance |-> distance,
      riskLevel |-> LustRisk(distance)]

\* .filter(site => site.distance <= 1.0)
LustWithinRadius(sites) ==
  SelectSeq(sites, LAMBDA site : LessEq(site.distance, LustRadius))

\* The sites the LUST adapter makes of the service's rows.
LustSites(lustData, location) ==
  LET rows == SelectSeq(lustData, LustHasFields)
      sites == [i \in 1..Len(rows) |-> LustSite(rows[i], location)]
  IN Slice(SortByDistance(LustWithinRadius(sites)), LustCap)

\* ------------------------------------------------- the API function
\* A row of an upstream service is [id, name, lat, lon]: SITE_EPA_ID,
\* REGISTRY_ID or PWS_ID, the name ("" when absent) and the coordinates.  A
\* record of the function's result is [name, id, error]; error is "" unless
\* the record was made by a catch block.
\* .map(site => ({ name: site.SITE_NAME || 'Unknown Site', ...,
\*                 epa_id: site.SITE_EPA_ID, ... }))
HandlerRecord(row) ==
  [name |-> IF row.name # "" THEN row.name ELSE "Unknown",
   id |-> row.id,
   error |-> ""]

\* results.superfundSites = [{ name: 'API Error - Unable to fetch ...',
\*                            ..., error: error.message }]
HandlerErrorRecord(message) ==
  [name |-> "API Error - Unable to fetch data", id |-> Blank, error |-> message]

\* One try block of the function, its fetch having settled with response:
\* the list it leaves in results.  A response that is not OK leaves the
\* empty list results was made with; a rejection, or a body response.json()
\* cannot parse, throws into the catch block.
HandlerSource(response) ==
  CASE response.kind = "json" ->
         LET rows == Slice(response.rows, HandlerCap)
         IN [i \in 1..Len(rows) |-> HandlerRecord(rows[i])]
    [] response.kind = "status" -> <<>>
    [] response.kind = "reject" -> <<HandlerErrorRecord("fetch failed")>>
    [] OTHER -> <<HandlerErrorRecord("Unexpected token")>>

\* handler(event): the response of the function to a query, the upstream
\* fetches settling as superfund, tri and water if they are issued.
handler(query, superfund, tri, water) ==
  IF query.lat = Blank \/ query.lon = Blank
  THEN [statusCode |-> 400, error |-> "Missing lat/lon parameters",
        superfundSites |-> <<>>, triSites |-> <<>>, waterViolations |-> <<>>,
        fetches |-> 0]
  ELSE [statusCode |-> 200, error |-> "",
        superfundSites |-> HandlerSource(superfund),
        triSites |-> HandlerSource(tri),
        waterViolations |-> HandlerSource(water),
        fetches |-> HandlerSources]

\* ----------------------------------------- the earlier API function
\* .map(facility => ({ name: facility.CWPName || facility.FacName ||
\*                      'Unknown Facility', ..., registry_id: ... }))
EchoRecord(facility) ==
  [name |-> IF facility.name # "" THEN facility.name ELSE "Unknown Facility",
   id |-> facility.id,
   error |-> ""]

\* handler of epa-api.js: the response to a query, its fetches of FRS and
\* ECHO settling as frs and echo.  lat and lon are never tested; the ECHO
\* query is built of them as they are.  frs.kind is "reject", "status",
\* "xml" (a text with a '<'), "badjson" or "json"; echo.kind is "reject",
\* "status", "badjson" or "json" with echo.rows its Results.  superfundSites
\* and waterViolations are the lists written in the function.
epaApi(query, frs, echo, superfundSites, waterViolations) ==
  LET afterFrs == IF frs.kind = "xml"
                  THEN <<[name |-> "FRS API Working - XML Format Detected",
                          id |-> Blank, error |-> ""]>>
                  ELSE <<>>
      triSites == IF echo.kind = "json" /\ Len(echo.rows) > 0
                  THEN LET rows == Slice(echo.rows, EchoCap)
                       IN [i \in 1..Len(rows) |-> EchoRecord(rows[i])]
                  ELSE afterFrs
  IN [statusCode |-> 200, error |-> "",
      superfundSites |-> superfundSites,
      triSites |-> triSites,
      waterViolations |-> waterViolations,
      echoLat |-> query.lat, echoLon |-> query.lon,
      fetches |-> EpaApiSources]

\* ------------------------------------------------- the proxy function
\* The body of an upstream answer is the text "[rows]" (a JSON array of
\* rows), "{error}" (a JSON object describing an error) or "<html>" (no
\* JSON).  JSON.parse(data) succeeds on the first two.
IsJSON(body) == body \in {"[rows]", "{error}"}

\* The headers object of epa-data.js: the CORS headers.
CorsHeaders ==
  [allowOrigin |-> "*", allowHeaders |-> "Content-Type",
   allowMethods |-> "GET, POST, OPTIONS"]

\* epaData, had it read the parameters before the method.
epaDataParametersFirst(event, upstream) ==
  IF event.endpoint = "" \/ event.state = ""
  THEN [statusCode |-> 400,
        error |-> "Missing required parameters: endpoint and state",
        body |-> "", fetches |-> 0, headers |-> CorsHeaders]
  ELSE IF event.httpMethod = "OPTIONS"
  THEN [statusCode |-> 200, error |-> "", body |-> "", fetches |-> 0,
        headers |-> CorsHeaders]
  ELSE IF event.httpMethod # "GET"
  THEN [statusCode |-> 405, error |-> "Method not allowed", body |-> "",
        fetches |-> 0, headers |-> CorsHeaders]
  ELSE IF event.endpoint \notin {"superfund", "tri"}
  THEN [statusCode |-> 400, error |-> "Invalid endpoint", body |-> "",
        fetches |-> 0, headers |-> CorsHeaders]
  ELSE IF upstream.kind = "end" /\ IsJSON(upstream.body)
  THEN [statusCode |-> 200, error |-> "", body |-> upstream.body,
        fetches |-> 1, headers |-> CorsHeaders]
  ELSE [statusCode |-> 500, error |-> "Failed to fetch data from EPA API",
        body |-> "", fetches |-> 1, headers |-> CorsHeaders]

\* exports.handler of epa-data.js: the response to event, the request to the
\* EPA service settling as upstream if it is issued.  upstream.kind is
\* "error" when the request emits 'error', "end" when an answer of status
\* upstream.status and body upstream.body has been received.  The status of
\* the answer is never read.
epaData(event, upstream) ==
  IF event.httpMethod = "OPTIONS"
  THEN [statusCode |-> 200, error |-> "", body |-> "", fetches |-> 0,
        headers |-> CorsHeaders]
  ELSE IF event.httpMethod # "GET"
  THEN [statusCode |-> 405, error |-> "Method not allowed", body |-> "",
        fetches |-> 0, headers |-> CorsHeaders]
  ELSE IF event.endpoint = "" \/ event.state = ""
  THEN [statusCode |-> 400,
        error |-> "Missing required parameters: endpoint and state",
        body |-> "", fetches |-> 0, headers |-> CorsHeaders]
  ELSE IF event.endpoint \notin {"superfund", "tri"}
  THEN [statusCode |-> 400, error |-> "Invalid endpoint", body |-> "",
        fetches |-> 0, headers |-> CorsHeaders]
  ELSE IF upstream.kind = "end" /\ IsJSON(upstream.body)
  THEN [statusCode |-> 200, error |-> "", body |-> upstream.body,
        fetches |-> 1, headers |-> CorsHeaders]
  ELSE [statusCode |-> 500, error |-> "Failed to fetch data from EPA API",
        body |-> "", fetches |-> 1, headers |-> CorsHeaders]

\* callNetlifyAPI: what it returns or throws, its fetch settling as response.
\* response.kind is "reject", or "end" with a body that is "<html>" or a JSON
\* object whose success is response.success (FALSE when absent).  The status
\* of the response is never read.
callNetlifyAPI(response) ==
  IF response.kind = "reject"
  THEN [threw |-> TRUE, error |-> "Failed to fetch", data |-> <<>>]
  ELSE IF ~IsJSON(response.body)
  THEN [threw |-> TRUE, error |-> "Unexpected token", data |-> <<>>]
  ELSE IF ~response.success
  THEN [threw |-> TRUE, error |-> "Failed to fetch data", data |-> <<>>]
  ELSE [threw |-> FALSE, error |-> "", data |-> response.data]

\* try { cerclisData = await callNetlifyAPI('cerclis', ...); ... }
\* catch (error) { errors.push(`CERCLIS data unavailable: ...`) }: the sites
\* and the errors after the CERCLIS step of a run.
CerclisStep(response, location) ==
  LET called == callNetlifyAPI(response)
  IN IF called.threw
     THEN [contaminationSites |-> <<>>,
           errors |-> <<<<"CERCLIS data unavailable", called.error>>>>]
     ELSE [contaminationSites |-> CerclisSites(called.data, location),
           errors |-> <<>>]

\* try { lustData = await callNetlifyAPI('lust', ...);
\*       contaminationSites = [...contaminationSites, ...lustSites] }
\* catch (error) { errors.push(`LUST data unavailable: ...`) }: the sites
\* and the errors after the CERCLIS step and the LUST step of a run.
ContaminationSteps(cerclis, lust, location) ==
  LET after == CerclisStep(cerclis, location)
      called == callNetlifyAPI(lust)
  IN IF called.threw
     THEN [contaminationSites |-> after.contaminationSites,
           errors |-> Append(after.errors,
                             <<"LUST data unavailable", called.error>>)]
     ELSE [contaminationSites |->
             after.contaminationSites \o LustSites(called.data, location),
           errors |-> after.errors]

\* ------------------------------------------------------------ the state
VARIABLES
  location,   \* the location prop of the mounted loader
  data,       \* the loader's state: useState<EnvironmentalData>
  runs,       \* the calls of loadEnvironmentalData so far, in start order
  now,        \* the clock new Date() reads
  merged,     \* toxicFacilities of the call that published data, as it was
              \* handed to the duplicate filter
  fnOp,       \* the adapter or filter last applied on its own
  fnLoc,      \* the location it was applied for
  fnIn,       \* its input list
  fnOut,      \* its output list
  fnCount,    \* the rows its loop examined, or the fetches it issued
  fnErr,      \* the message of the error it threw, "" if it threw none
  appLocation,   \* App.tsx: the state of the location shown, "null" for none
  dataLoading,   \* App.tsx: useState(false)
  dataLoaded,    \* App.tsx: useState(false)
  loadedStates,  \* the states dataLoader holds
  calls,         \* the calls of handleLocationFound awaiting dataLoader
  found,         \* the calls of handleLocationFound so far
  testLocation,  \* test App: the location selected, 0 for null
  isLoading,     \* test App: useState(false)
  timers,        \* test App: the selections whose timer is pending
  selected,      \* test App: the locations selected so far, in order
  mounted        \* test App: EnvironmentalDataLoader is rendered

vars ==
  <<location, data, runs, now, merged, fnOp, fnLoc, fnIn, fnOut, fnCount,
    fnErr, appLocation, dataLoading, dataLoaded, loadedStates, calls, found,
    testLocation, isLoading, timers, selected, mounted>>

appVars == <<appLocation, dataLoading, dataLoaded, loadedStates, calls, found>>

testVars == <<testLocation, isLoading, timers, selected, mounted>>

loaderVars == <<location, data, runs, now, merged>>

fnVars == <<fnOp, fnLoc, fnIn, fnOut, fnCount, fnErr>>

\* ------------------------------------------------------------ the inputs
\* The locations the parent hands to the loader: one with a state, one
\* without, one whose latitude is missing.
LocMD == [lat |-> 4000, lng |-> -7000, state |-> "MD"]

LocNoState == [lat |-> 4100, lng |-> -7000, state |-> ""]

LocNoLat == [lat |-> 0, lng |-> -7000, state |-> "MD"]

Locations == {LocMD, LocNoState, LocNoLat}

\* No location yet: the loader is not mounted.
NoLocation == [lat |-> 0, lng |-> 0, state |-> ""]

\* Data lines of the extract of MD: a facility 0.3 miles from LocMD and one
\* 20 miles from it.
ExtractRows == {<<"ACME", 4030, -7000>>, <<"ZINC", 6000, -7000>>}

RECURSIVE SeqsUpTo(_, _)
\* The sequences of at most n elements of S.
SeqsUpTo(S, n) ==
  IF n = 0 THEN {<<>>}
  ELSE LET shorter == SeqsUpTo(S, n - 1)
       IN shorter \cup {Append(s, x) : s \in shorter, x \in S}

\* What the fetch of /data/tri/TRI_2023_<state>.csv settles with: a rejection,
\* a status that is not OK, or a text (no line at all, or a header line and
\* data lines).
TriResponses ==
  {[kind |-> "reject", lines |-> <<>>], [kind |-> "status", lines |-> <<>>],
   [kind |-> "text", lines |-> <<>>]}
  \cup {[kind |-> "text", lines |-> <<HeaderLine>> \o rows] :
          rows \in SeqsUpTo(ExtractRows, MaxRows)}

\* A site as the API function returns it: no riskLevel, no type, and a
\* distance that is absent or a text (NaN).
ApiSite(name, distance) ==
  [name |-> name, type |-> "", distance |-> distance, riskLevel |-> ""]

ApiSuperfundList ==
  <<ApiSite("Sparrows Point Shipyard", NaN), ApiSite("Baltimore Harbor", NaN),
    ApiSite("Lehigh Portland Cement", NaN)>>

\* A water violation as the API function returns it: system, violation, date
\* and contaminant, no health-based indicator and no riskLevel.
ApiWaterList ==
  <<[system |-> "Baltimore City Water System", healthBased |-> FALSE,
     riskLevel |-> ""]>>

\* The triSites of a result: none, or one as the function returns it.
ApiTriLists == {<<>>, <<ApiSite("Test Chemical Facility", NaN)>>}

NoResult == [superfundSites |-> <<>>, waterViolations |-> <<>>, triSites |-> <<>>]

\* What the fetch of /.netlify/functions/epa-api settles with: a rejection, a
\* status that is not OK, a body that is not JSON, or a JSON result.
ApiResponses ==
  {[kind |-> "reject", result |-> NoResult],
   [kind |-> "status", result |-> NoResult],
   [kind |-> "badjson", result |-> NoResult]}
  \cup {[kind |-> "json",
         result |-> [superfundSites |-> known[1], waterViolations |-> known[2],
                     triSites |-> tri]] :
          known \in {<<<<>>, <<>>>>, <<ApiSuperfundList, ApiWaterList>>},
          tri \in ApiTriLists}

\* ------------------------------------------------------- the loader
\* useState<EnvironmentalData>({...}); lastUpdated 0 is undefined.
InitialData ==
  [contaminationSites |-> <<>>, waterViolations |-> <<>>,
   toxicFacilities |-> <<>>, loading |-> FALSE, errors |-> <<>>,
   lastUpdated |-> 0]

\* SetLoading, had it reset the lists as well.
SetLoadingResetLists(prev) ==
  [prev EXCEPT !.loading = TRUE, !.errors = <<>>, !.contaminationSites = <<>>,
               !.waterViolations = <<>>, !.toxicFacilities = <<>>]

\* setData(prev => ({ ...prev, loading: true, errors: [] }))
SetLoading(prev) == [prev EXCEPT !.loading = TRUE, !.errors = <<>>]

\* FirstFetches, had both adapters been launched together.
FirstFetchesTogether(loc) ==
  [tri |-> IF loc.state = "" THEN "skipped" ELSE "pending", api |-> "pending"]

\* FirstFetches, had loadTRIData fetched the extract whatever the state.
FirstFetchesAlways(loc) == [tri |-> "pending", api |-> "none"]

\* The fetches outstanding when loadEnvironmentalData first suspends: the
\* extract's, or with no state (loadTRIData returns [] at once) the API's.
FirstFetches(loc) ==
  IF loc.state = "" THEN [tri |-> "skipped", api |-> "pending"]
  ELSE [tri |-> "pending", api |-> "none"]

\* No request made.
NoQuery == [lat |-> Blank, lon |-> Blank]

\* The query of fetch(`/.netlify/functions/epa-api?endpoint=test
\*                     &lat=${location.lat}&lon=${location.lng}`)
ApiQuery(loc) == [lat |-> loc.lat, lon |-> loc.lng]

\* loadEnvironmentalData up to its first suspension.
NewRun(loc) ==
  LET f == FirstFetches(loc)
  IN [loc |-> loc,
      tri |-> f.tri,
      api |-> f.api,
      apiQuery |-> IF f.api = "pending" THEN ApiQuery(loc) ELSE NoQuery,
      triCalls |-> IF f.tri = "pending" THEN 1 ELSE 0,
      apiCalls |-> IF f.api = "pending" THEN 1 ELSE 0,
      toxicFacilities |-> <<>>,
      contaminationSites |-> <<>>,
      waterViolations |-> <<>>,
      errors |-> <<>>,
      publishedAt |-> 0]

\* AfterTri, had a failed fetch of the extract been issued once more.
AfterTriRetry(run, res) ==
  IF res.ok \/ run.triCalls > 1
  THEN [run EXCEPT
          !.tri = IF res.ok THEN "ok" ELSE "failed",
          !.toxicFacilities = IF res.ok THEN res.sites ELSE @,
          !.errors = IF res.ok THEN @
                     ELSE Append(@, <<"TRI data unavailable", res.error>>),
          !.api = "pending",
          !.apiQuery = ApiQuery(run.loc),
          !.apiCalls = @ + 1]
  ELSE [run EXCEPT !.triCalls = @ + 1]

\* try { toxicFacilities = await loadTRIData() } catch { errors.push(...) },
\* then the fetch of the API is issued.
AfterTri(run, res) ==
  [run EXCEPT
     !.tri = IF res.ok THEN "ok" ELSE "failed",
     !.toxicFacilities = IF res.ok THEN res.sites ELSE @,
     !.errors = IF res.ok THEN @
                ELSE Append(@, <<"TRI data unavailable", res.error>>),
     !.api = "pending",
     !.apiQuery = ApiQuery(run.loc),
     !.apiCalls = @ + 1]

\* result.triSites.map(site => ({ ...site, type: 'TRI - API Source',
\*                                riskLevel: 'Medium' }))
ApiTriSite(site, loc) ==
  [site EXCEPT !.type = "TRI - API Source", !.riskLevel = "Medium"]

\* The message of the error the API step throws, "" when it throws none.
ApiError(response) ==
  CASE response.kind = "reject" -> "Failed to fetch"
    [] response.kind = "status" -> "API returned status"
    [] response.kind = "badjson" -> "Unexpected token"
    [] OTHER -> ""

\* AfterApi, had its catch block recorded nothing.
AfterApiSilent(run, response) ==
  IF response.kind = "json"
  THEN [run EXCEPT
          !.api = "ok",
          !.contaminationSites = response.result.superfundSites,
          !.waterViolations = response.result.waterViolations,
          !.toxicFacilities =
             IF Len(response.result.triSites) > 0
             THEN @ \o [i \in 1..Len(response.result.triSites) |->
                          ApiTriSite(response.result.triSites[i], run.loc)]
             ELSE @]
  ELSE [run EXCEPT !.api = "failed"]

\* try { response = await fetch(...); if (response.ok) {...} else throw }
\* catch { errors.push(...) }
AfterApi(run, response) ==
  IF response.kind = "json"
  THEN [run EXCEPT
          !.api = "ok",
          !.contaminationSites = response.result.superfundSites,
          !.waterViolations = response.result.waterViolations,
          !.toxicFacilities =
             IF Len(response.result.triSites) > 0
             THEN @ \o [i \in 1..Len(response.result.triSites) |->
                          ApiTriSite(response.result.triSites[i], run.loc)]
             ELSE @]
  ELSE [run EXCEPT
          !.api = "failed",
          !.errors = Append(@, <<"API data partially unavailable",
                                 ApiError(response)>>)]

\* Published, had it left loading set.
PublishedStillLoading(run, time) ==
  [contaminationSites |-> run.contaminationSites,
   waterViolations |-> run.waterViolations,
   toxicFacilities |-> uniqueToxicFacilities(run.toxicFacilities),
   loading |-> TRUE,
   errors |-> run.errors,
   lastUpdated |-> time]

\* setData({ contaminationSites, waterViolations,
\*           toxicFacilities: uniqueToxicFacilities, loading: false, errors,
\*           lastUpdated: new Date().toISOString() })
Published(run, time) ==
  [contaminationSites |-> run.contaminationSites,
   waterViolations |-> run.waterViolations,
   toxicFacilities |-> uniqueToxicFacilities(run.toxicFacilities),
   loading |-> FALSE,
   errors |-> run.errors,
   lastUpdated |-> time]

\* A call that has returned: its locals are gone, what is kept is which of
\* its fetches failed and when it published.
Returned(run, time) ==
  [run EXCEPT !.toxicFacilities = <<>>, !.contaminationSites = <<>>,
              !.waterViolations = <<>>, !.errors = <<>>,
              !.publishedAt = time]

Init ==
  /\ location = NoLocation
  /\ data = InitialData
  /\ runs = <<>>
  /\ now = 1
  /\ merged = <<>>
  /\ fnOp = "none"
  /\ fnLoc = NoLocation
  /\ fnIn = <<>>
  /\ fnOut = <<>>
  /\ fnCount = 0
  /\ fnErr = ""
  /\ appLocation = "null"
  /\ dataLoading = FALSE
  /\ dataLoaded = FALSE
  /\ loadedStates = {}
  /\ calls = <<>>
  /\ found = 0
  /\ testLocation = 0
  /\ isLoading = FALSE
  /\ timers = {}
  /\ selected = <<>>
  /\ mounted = FALSE

\* The parent renders the loader with a location; the effect calls
\* loadEnvironmentalData if the location has a latitude and a longitude.
SetLocation(loc) ==
  /\ location' = loc
  /\ IF loc.lat # 0 /\ loc.lng # 0
     THEN /\ Len(runs) < MaxRuns
          /\ runs' = Append(runs, NewRun(loc))
          /\ data' = SetLoading(data)
     ELSE UNCHANGED <<runs, data>>
  /\ UNCHANGED <<now, merged, fnVars, appVars, testVars>>

\* The fetch of the extract settles in run r.
TriSettle(r, response) ==
  /\ runs[r].tri = "pending"
  /\ runs' = [runs EXCEPT
                ![r] = AfterTri(@, loadTRIData(runs[r].loc, response))]
  /\ UNCHANGED <<location, data, now, merged, fnVars, appVars, testVars>>

\* The fetch of the API settles in run r, and the run publishes its result.
ApiSettle(r, response) ==
  /\ runs[r].api = "pending"
  /\ LET run == AfterApi(runs[r], response)
     IN /\ data' = Published(run, now)
        /\ merged' = run.toxicFacilities
        /\ runs' = [runs EXCEPT ![r] = Returned(run, now)]
  /\ now' = now + 1
  /\ UNCHANGED <<location, fnVars, appVars, testVars>>

Next ==
  \/ \E loc \in Locations : SetLocation(loc)
  \/ \E r \in 1..Len(runs) : \E response \in TriResponses :
       TriSettle(r, response)
  \/ \E r \in 1..Len(runs) : \E response \in ApiResponses :
       ApiSettle(r, response)

Spec == Init /\ [][Next]_vars

\* The answers the fetches settle with where only their settling matters: a
\* failure of each kind, an extract holding the near facility, a result
\* with and without sites.
LiveTriResponses ==
  {[kind |-> "reject", lines |-> <<>>], [kind |-> "status", lines |-> <<>>],
   [kind |-> "text", lines |-> <<HeaderLine, <<"ACME", 4030, -7000>>>>]}

LiveApiResponses ==
  {[kind |-> "reject", result |-> NoResult],
   [kind |-> "json", result |-> NoResult],
   [kind |-> "json",
    result |-> [superfundSites |-> ApiSuperfundList,
                waterViolations |-> ApiWaterList, triSites |-> <<>>]]}

LiveNext ==
  \/ \E loc \in Locations : SetLocation(loc)
  \/ \E r \in 1..Len(runs) : \E response \in LiveTriResponses :
       TriSettle(r, response)
  \/ \E r \in 1..Len(runs) : \E response \in LiveApiResponses :
       ApiSettle(r, response)

\* Every fetch a run has issued settles: the browser answers or rejects it.
FetchesSettle ==
  \A r \in 1..MaxRuns :
    /\ WF_vars(\E response \in LiveTriResponses :
                 r \in 1..Len(runs) /\ TriSettle(r, response))
    /\ WF_vars(\E response \in LiveApiResponses :
                 r \in 1..Len(runs) /\ ApiSettle(r, response))

LiveSpec == Init /\ [][LiveNext]_vars /\ FetchesSettle

\* ------------------------------- the adapters and the filter on their own
\* A second location with a state, off the meridian of LocMD.
LocVA == [lat |-> 4100, lng |-> -6990, state |-> "VA"]

FnLocations == {LocMD, LocVA}

\* Data lines of an extract: facilities 0.3, 15 and 15.01 miles from LocMD,
\* lines whose latitude is 0, is no number or is empty, and a line cut short.
FnExtractRows ==
  {<<"ACME", 4030, -7000>>, <<"DOCK", 5500, -7000>>, <<"ZINC", 5501, -7000>>,
   <<"", 4010, -7000>>, <<"ACME", 0, -7000>>, <<"ACME", NaN, -7000>>,
   <<"ACME", 4030, Blank>>, <<"ACME", 4030>>}

\* Rows of a remote query service: sites 0.3, 1, 1.01, 2 and 2.01 miles from
\* LocMD, rows whose latitude is no number or is absent, and a nameless row.
FnServiceRows ==
  {[name |-> "ACME", lat |-> lat, lon |-> -7000] :
     lat \in {4030, 4100, 4101, 4200, 4201, NaN, Blank}}
  \cup {[name |-> "", lat |-> 4030, lon |-> -7000]}

\* The lists of n rows all of which are far but the one at place p, near.
OneNear(n, near, far) ==
  {[i \in 1..n |-> IF i = p THEN near ELSE far] : p \in 1..n}

\* Extracts with one data line more than the adapter returns sites: a
\* facility 0.3 miles from LocMD among facilities 15 miles from it.
FnExtractsPastCap ==
  OneNear(TriCap + 1, <<"ACME", 4030, -7000>>, <<"DOCK", 5500, -7000>>)

\* Extracts with one data line more than the row loop examines: lines cut
\* short but for a facility 15 miles from LocMD at place p and one 0.3 miles
\* from it at place q.
FnExtractsPastScanCap ==
  {[i \in 1..(TriScanCap + 1) |->
      IF i = q THEN <<"ACME", 4030, -7000>>
      ELSE IF i = p THEN <<"DOCK", 5500, -7000>> ELSE <<"ACME", 4030>>] :
     p \in {1, TriScanCap}, q \in {2, TriScanCap, TriScanCap + 1}}

\* Answers of a remote query service with one row more than the adapter
\* returns sites: a site 0.3 miles from LocMD among sites 1 mile from it.
FnServiceRowsPastCap(cap) ==
  OneNear(cap + 1, [name |-> "ACME", lat |-> 4030, lon |-> -7000],
                   [name |-> "DOCK", lat |-> 4100, lon |-> -7000])

\* The query string of a request to the API function: the coordinates of
\* LocMD, or one of them missing.
FnQueries ==
  {[lat |-> 4000, lon |-> -7000], [lat |-> Blank, lon |-> -7000],
   [lat |-> 4000, lon |-> Blank]}

\* What a fetch of an upstream service settles with: a rejection, a status
\* that is not OK, a body that is not JSON, or rows.
Upstream(rows) == [kind |-> "json", rows |-> rows]

UpstreamFailures ==
  {[kind |-> k, rows |-> <<>>] : k \in {"reject", "status", "badjson"}}

UpstreamRow(id, lat) ==
  [id |-> id, name |-> "ACME", lat |-> lat, lon |-> -7000]

\* Answers with one row more than the function returns records: a site 0.3
\* miles from the query's coordinates at place p among sites 1 mile from them.
UpstreamPastCap ==
  {Upstream([i \in 1..(HandlerCap + 1) |->
               UpstreamRow(i, IF i = p THEN 4030 ELSE 4100)]) :
     p \in {1, HandlerCap + 1}}

UpstreamResponses ==
  UpstreamFailures \cup {Upstream(<<>>), Upstream(<<UpstreamRow(1, 4030)>>)}

\* The categories whose risk level is a function of the distance: the sites
\* of the CERCLIS adapter, of the LUST adapter, of loadTRIData and of the
\* remote query adapter for TRI.
FnCategories == {"cerclis", "lust", "tri", "triapi"}

\* Distances on, next to and between the thresholds, and one that is no
\* number.
FnDistances ==
  {0, 24, 25, 26, 49, 50, 51, 99, 100, 101, 149, 150, 151, 499, 500, 501,
   1500, NaN}

\* Requests to the proxy function.
FnEvents ==
  {[httpMethod |-> m, endpoint |-> e, state |-> st] :
     m \in {"GET", "OPTIONS", "POST"},
     e \in {"superfund", "tri", "water", ""}, st \in {"MD", ""}}

\* What the request to the EPA service settles with: an error of the
\* connection, or an answer: rows with status 200, a JSON description of an
\* error or an HTML page with status 404 or 500, an HTML page with status 200.
FnEpaAnswers ==
  {[kind |-> "error", status |-> 0, body |-> ""],
   [kind |-> "end", status |-> 200, body |-> "[rows]"],
   [kind |-> "end", status |-> 200, body |-> "<html>"],
   [kind |-> "end", status |-> 404, body |-> "{error}"],
   [kind |-> "end", status |-> 500, body |-> "<html>"]}

\* What the fetch of callNetlifyAPI settles with: a rejection, or a response
\* of the function: success with rows, a failure it reports with status 200
\* or 500, an HTML page of the gateway with status 502.
FnFunctionAnswers ==
  {[kind |-> "reject", status |-> 0, body |-> "", success |-> FALSE,
    data |-> <<>>],
   [kind |-> "end", status |-> 502, body |-> "<html>", success |-> FALSE,
    data |-> <<>>],
   [kind |-> "end", status |-> 500, body |-> "{error}", success |-> FALSE,
    data |-> <<>>],
   [kind |-> "end", status |-> 200, body |-> "{error}", success |-> FALSE,
    data |-> <<>>]}
  \cup {[kind |-> "end", status |-> 200, body |-> "[rows]", success |-> TRUE,
          data |-> rows] : rows \in SeqsUpTo(FnServiceRows, 1)}

\* What the fetch of FRS settles with.
FnFrsAnswers ==
  {[kind |-> k, rows |-> <<>>] :
     k \in {"reject", "status", "xml", "badjson", "json"}}

\* Coordinates in whole degrees: the poles, the equator, points between,
\* and with each point the point opposite it on the globe.
FnLatitudes == {-90, -60, -12, -1, 0, 1, 12, 60, 90}

FnLongitudes == {-90, -45, 0, 45, 90}

FnCoordinates == FnLatitudes \X FnLongitudes

\* The characters of the lines handed to parseCSVLine.
FnChars == {"a", ",", "\"", " "}

\* A facility as loadTRIData returns it.
TriSite(name, distance) ==
  [name |-> name, type |-> "TRI - Toxic Release Inventory",
   distance |-> distance, riskLevel |-> TriRisk(distance)]

\* Facilities of the extract the duplicate filter may meet.
FnTriSites ==
  {TriSite(name, distance) : name \in {"ACME", "DOCK"},
                             distance \in {0, 9, 10, 18}}

\* Sites of the API after the loader's mapping, as the function returns them
\* (no distance) and as a service that reports distances would.
FnApiSites ==
  {ApiTriSite(ApiSite(name, distance), LocMD) :
     name \in {"ACME", "DOCK"}, distance \in {0, 10, NaN}}

IsApiSite(site) == site.type = "TRI - API Source"

\* The lists loadEnvironmentalData hands to the duplicate filter: what
\* loadTRIData returned, sorted by distance, then the sites of the API.
FnFacilityLists ==
  {l \in SeqsUpTo(FnTriSites \cup FnApiSites, MaxList) :
     \A i \in 1..Len(l) : \A j \in 1..Len(l) :
       (i < j /\ ~IsApiSite(l[j]))
         => (~IsApiSite(l[i]) /\ l[i].distance <= l[j].distance)}

FnInit ==
  /\ location = NoLocation
  /\ data = InitialData
  /\ runs = <<>>
  /\ now = 1
  /\ merged = <<>>
  /\ fnOp = "none"
  /\ fnLoc = NoLocation
  /\ fnIn = <<>>
  /\ fnOut = <<>>
  /\ fnCount = 0
  /\ fnErr = ""
  /\ appLocation = "null"
  /\ dataLoading = FALSE
  /\ dataLoaded = FALSE
  /\ loadedStates = {}
  /\ calls = <<>>
  /\ found = 0
  /\ testLocation = 0
  /\ isLoading = FALSE
  /\ timers = {}
  /\ selected = <<>>
  /\ mounted = FALSE

\* The duplicate filter applied to a list of facilities.
ApplyDedupe(list) ==
  /\ fnOp = "none"
  /\ fnOp' = "dedupe"
  /\ fnLoc' = NoLocation
  /\ fnIn' = list
  /\ fnOut' = uniqueToxicFacilities(list)
  /\ fnCount' = 0
  /\ fnErr' = ""
  /\ UNCHANGED <<loaderVars, appVars, testVars>>

\* loadTRIData applied to an extract with the given data lines.
ApplyTri(loc, rows) ==
  /\ fnOp = "none"
  /\ fnOp' = "tri"
  /\ fnLoc' = loc
  /\ fnIn' = rows
  /\ fnOut' = loadTRIData(loc, [kind |-> "text",
                                lines |-> <<HeaderLine>> \o rows]).sites
  /\ fnCount' = TriProcessed(<<HeaderLine>> \o rows, 2, 0)
  /\ fnErr' = loadTRIData(loc, [kind |-> "text",
                                lines |-> <<HeaderLine>> \o rows]).error
  /\ UNCHANGED <<loaderVars, appVars, testVars>>

\* The CERCLIS adapter applied to the rows of its service.
ApplyCerclis(loc, rows) ==
  /\ fnOp = "none"
  /\ fnOp' = "cerclis"
  /\ fnLoc' = loc
  /\ fnIn' = rows
  /\ fnOut' = CerclisSites(rows, loc)
  /\ fnCount' = 0
  /\ fnErr' = ""
  /\ UNCHANGED <<loaderVars, appVars, testVars>>

\* The LUST adapter applied to the rows of its service.
ApplyLust(loc, rows) ==
  /\ fnOp = "none"
  /\ fnOp' = "lust"
  /\ fnLoc' = loc
  /\ fnIn' = rows
  /\ fnOut' = LustSites(rows, loc)
  /\ fnCount' = 0
  /\ fnErr' = ""
  /\ UNCHANGED <<loaderVars, appVars, testVars>>

\* loadEnvironmentalData from its call to its setData for a location with a
\* latitude and a longitude, its fetches settling as tri and api: the state
\* it publishes.  With no state in the location tri is not fetched.
ApplyRun(loc, tri, api) ==
  /\ fnOp = "none"
  /\ loc.lat # 0 /\ loc.lng # 0
  /\ fnOp' = "run"
  /\ fnLoc' = loc
  /\ fnIn' = [tri |-> tri, api |-> api]
  /\ fnOut' = LET started == NewRun(loc)
                  run == IF started.tri = "pending"
                         THEN AfterTri(started, loadTRIData(loc, tri))
                         ELSE started
              IN Published(AfterApi(run, api), now)
  /\ fnCount' = (IF loc.state = "" THEN 0 ELSE 1) + 1
  /\ fnErr' = ""
  /\ UNCHANGED <<loaderVars, appVars, testVars>>

\* The effect of the loader for a location without a latitude or without a
\* longitude: loadEnvironmentalData is not called, the state stays as
\* useState made it.
ApplyEffectSkipped(loc) ==
  /\ fnOp = "none"
  /\ ~(loc.lat # 0 /\ loc.lng # 0)
  /\ fnOp' = "skipped"
  /\ fnLoc' = loc
  /\ fnIn' = <<>>
  /\ fnOut' = InitialData
  /\ fnCount' = 0
  /\ fnErr' = ""
  /\ UNCHANGED <<loaderVars, appVars, testVars>>

\* The earlier API function applied to a request.
ApplyEpaApi(query, frs, echo) ==
  /\ fnOp = "none"
  /\ fnOp' = "epaApi"
  /\ fnLoc' = [lat |-> query.lat, lng |-> query.lon, state |-> ""]
  /\ fnIn' = [frs |-> frs, echo |-> echo]
  /\ fnOut' = epaApi(query, frs, echo, ApiSuperfundList, ApiWaterList)
  /\ fnCount' = epaApi(query, frs, echo, ApiSuperfundList, ApiWaterList).fetches
  /\ fnErr' = ""
  /\ UNCHANGED <<loaderVars, appVars, testVars>>

\* The proxy function applied to a request.
ApplyEpaData(event, upstream) ==
  /\ fnOp = "none"
  /\ fnOp' = "epaData"
  /\ fnLoc' = NoLocation
  /\ fnIn' = [event |-> event, upstream |-> upstream]
  /\ fnOut' = epaData(event, upstream)
  /\ fnCount' = epaData(event, upstream).fetches
  /\ fnErr' = ""
  /\ UNCHANGED <<loaderVars, appVars, testVars>>

\* The CERCLIS step of a run, its call of the function settling as response.
ApplyCerclisStep(loc, response) ==
  /\ fnOp = "none"
  /\ fnOp' = "cerclisStep"
  /\ fnLoc' = loc
  /\ fnIn' = response
  /\ fnOut' = CerclisStep(response, loc)
  /\ fnCount' = 1
  /\ fnErr' = ""
  /\ UNCHANGED <<loaderVars, appVars, testVars>>

\* The CERCLIS step and the LUST step of a run, the fetches of
\* callNetlifyAPI settling as cerclis and lust.
ApplyContamination(loc, cerclis, lust) ==
  /\ fnOp = "none"
  /\ fnOp' = "contamination"
  /\ fnLoc' = loc
  /\ fnIn' = <<cerclis, lust>>
  /\ fnOut' = ContaminationSteps(cerclis, lust, loc).contaminationSites
  /\ fnCount' = 2
  /\ fnErr' = ""
  /\ UNCHANGED <<loaderVars, appVars, testVars>>

\* calculateDistance applied to a and b, to b and a, and to a and a.
ApplyDistance(a, b) ==
  /\ fnOp = "none"
  /\ fnOp' = "distance"
  /\ fnLoc' = NoLocation
  /\ fnIn' = <<a, b>>
  /\ fnOut' = <<Haversine(a[1], a[2], b[1], b[2]),
                Haversine(b[1], b[2], a[1], a[2]),
                Haversine(a[1], a[2], a[1], a[2])>>
  /\ fnCount' = 0
  /\ fnErr' = ""
  /\ UNCHANGED <<loaderVars, appVars, testVars>>

\* parseCSVLine applied to a line.
ApplyParse(line) ==
  /\ fnOp = "none"
  /\ fnOp' = "parse"
  /\ fnLoc' = NoLocation
  /\ fnIn' = line
  /\ fnOut' = parseCSVLine(line)
  /\ fnCount' = 0
  /\ fnErr' = ""
  /\ UNCHANGED <<loaderVars, appVars, testVars>>

\* The riskLevel expression of a category applied to a distance.
ApplyClassify(category, distance) ==
  /\ fnOp = "none"
  /\ fnOp' = "classify"
  /\ fnLoc' = NoLocation
  /\ fnIn' = [category |-> category, distance |-> distance]
  /\ fnOut' = CASE category = "cerclis" -> CerclisRisk(distance)
                 [] category = "lust" -> LustRisk(distance)
                 [] category = "tri" -> TriRisk(distance)
                 [] OTHER -> TriApiRisk(distance)
  /\ fnCount' = 0
  /\ fnErr' = ""
  /\ UNCHANGED <<loaderVars, appVars, testVars>>

\* The API function applied to a request, its upstream fetches settling as
\* given.
ApplyHandler(query, superfund, tri, water) ==
  /\ fnOp = "none"
  /\ fnOp' = "handler"
  /\ fnLoc' = [lat |-> query.lat, lng |-> query.lon, state |-> ""]
  /\ fnIn' = [superfund |-> superfund, tri |-> tri, water |-> water]
  /\ fnOut' = handler(query, superfund, tri, water)
  /\ fnCount' = handler(query, superfund, tri, water).fetches
  /\ fnErr' = ""
  /\ UNCHANGED <<loaderVars, appVars, testVars>>

FnNext ==
  \/ fnOp = "none" /\ \E list \in FnFacilityLists : ApplyDedupe(list)
  \/ fnOp = "none" /\ \E loc \in FnLocations :
       \E rows \in SeqsUpTo(FnExtractRows, MaxList)
                      \cup FnExtractsPastCap \cup FnExtractsPastScanCap :
         ApplyTri(loc, rows)
  \/ fnOp = "none" /\ \E loc \in FnLocations :
       \E rows \in SeqsUpTo(FnServiceRows, MaxList)
                      \cup FnServiceRowsPastCap(CerclisCap) :
         ApplyCerclis(loc, rows)
  \/ fnOp = "none" /\ \E loc \in FnLocations :
       \E rows \in SeqsUpTo(FnServiceRows, MaxList)
                      \cup FnServiceRowsPastCap(LustCap) :
         ApplyLust(loc, rows)
  \/ fnOp = "none" /\ \E loc \in Locations : \E tri \in TriResponses : \E api \in ApiResponses :
       ApplyRun(loc, tri, api)
  \/ fnOp = "none" /\ \E loc \in Locations \cup {NoLocation} : ApplyEffectSkipped(loc)
  \/ fnOp = "none" /\ \E query \in FnQueries : \E frs \in FnFrsAnswers :
       \E echo \in UpstreamResponses : ApplyEpaApi(query, frs, echo)
  \/ fnOp = "none" /\ \E event \in FnEvents : \E upstream \in FnEpaAnswers :
       ApplyEpaData(event, upstream)
  \/ fnOp = "none" /\ \E loc \in FnLocations : \E response \in FnFunctionAnswers :
       ApplyCerclisStep(loc, response)
  \/ fnOp = "none" /\ \E line \in SeqsUpTo(FnChars, MaxChars) : ApplyParse(line)
  \/ fnOp = "none" /\ \E a \in FnCoordinates : \E b \in FnCoordinates :
       ApplyDistance(a, b)
  \/ fnOp = "none" /\ \E loc \in FnLocations :
       \E cerclis \in FnFunctionAnswers : \E lust \in FnFunctionAnswers :
         ApplyContamination(loc, cerclis, lust)
  \/ fnOp = "none" /\ \E category \in FnCategories : \E distance \in FnDistances :
       ApplyClassify(category, distance)
  \/ fnOp = "none" /\ \E query \in FnQueries :
       \E superfund \in UpstreamResponses \cup UpstreamPastCap :
         \E tri \in UpstreamResponses : \E water \in UpstreamResponses :
           ApplyHandler(query, superfund, tri, water)

FnSpec == FnInit /\ [][FnNext]_vars

\* ------------------------------------------------------------ App.tsx
\* The state fields of the locations AddressInput reports: none, or a state.
AppStates == {"", "MD", "VA"}

\* How a call of dataLoader.loadDataForState settles: it resolves with the
\* state held, resolves without it, or throws.
LoadOutcomes == {"loaded", "notLoaded", "throws"}

\* dataLoader.loadDataForState(state), as it settles with the outcome.
loadDataForState(state, outcome) ==
  IF outcome = "loaded" THEN loadedStates \cup {state} ELSE loadedStates

\* dataLoader.isStateLoaded(state) of the states held.
isStateLoaded(held, state) == state \in held

\* handleLocationFound up to its await: setLocation, and with a state
\* setDataLoading(true) and the call of dataLoader.loadDataForState.
handleLocationFound(state) ==
  /\ found < MaxFound
  /\ found' = found + 1
  /\ appLocation' = state
  /\ IF state # ""
     THEN /\ dataLoading' = TRUE
          /\ calls' = Append(calls, state)
     ELSE UNCHANGED <<dataLoading, calls>>
  /\ UNCHANGED <<dataLoaded, loadedStates, loaderVars, fnVars, testVars>>

\* The await of call c settles: setDataLoaded(isStateLoaded(state)) unless
\* it threw, and setDataLoading(false) in the finally block.
LoadSettles(c, outcome) ==
  /\ c \in 1..Len(calls)
  /\ loadedStates' = loadDataForState(calls[c], outcome)
  /\ dataLoaded' = IF outcome = "throws" THEN dataLoaded
                   ELSE isStateLoaded(loadedStates', calls[c])
  /\ dataLoading' = FALSE
  /\ calls' = SubSeq(calls, 1, c - 1) \o SubSeq(calls, c + 1, Len(calls))
  /\ UNCHANGED <<appLocation, found, loaderVars, fnVars, testVars>>

AppNext ==
  \/ \E state \in AppStates : handleLocationFound(state)
  \/ \E c \in 1..Len(calls) : \E outcome \in LoadOutcomes :
       LoadSettles(c, outcome)

AppSpec == Init /\ [][AppNext]_vars

\* ------------------------------------------------- the test-location App
\* testLocations, by index.
TestLocations == {1, 2}

\* {!location && (... <button disabled={isLoading}> ...)}: a test location
\* can be clicked.
SelectEnabled == testLocation = 0 /\ ~isLoading

\* ClearShown, had the button been rendered for any location.
ClearShownWhileLoading == testLocation # 0

\* {location && !isLoading && (... <button onClick={clearLocation}> ...)}
ClearShown == testLocation # 0 /\ ~isLoading

\* {location && !isLoading && <EnvironmentalDataLoader location={location} />}
LoaderRendered(loc, loading) == loc # 0 /\ ~loading

\* A click on a test location: setIsLoading(true); setLocation(newLocation);
\* setTimeout(() => setIsLoading(false), 500)
handleLocationSelect(newLocation) ==
  /\ SelectEnabled
  /\ Len(selected) < MaxSelects
  /\ isLoading' = TRUE
  /\ testLocation' = newLocation
  /\ selected' = Append(selected, newLocation)
  /\ timers' = timers \cup {Len(selected) + 1}
  /\ mounted' = LoaderRendered(newLocation, TRUE)
  /\ UNCHANGED <<loaderVars, fnVars, appVars>>

\* A click on Select Different Location: setLocation(null);
\* setIsLoading(false).  The timer of the selection is not cancelled.
clearLocation ==
  /\ ClearShown
  /\ testLocation' = 0
  /\ isLoading' = FALSE
  /\ mounted' = LoaderRendered(0, FALSE)
  /\ UNCHANGED <<timers, selected, loaderVars, fnVars, appVars>>

\* The timer of selection t expires: setIsLoading(false).
TimerExpires(t) ==
  /\ t \in timers
  /\ timers' = timers \ {t}
  /\ isLoading' = FALSE
  /\ mounted' = LoaderRendered(testLocation, FALSE)
  /\ UNCHANGED <<testLocation, selected, loaderVars, fnVars, appVars>>

TestNext ==
  \/ \E newLocation \in TestLocations : handleLocationSelect(newLocation)
  \/ clearLocation
  \/ \E t \in timers : TimerExpires(t)

TestSpec == Init /\ [][TestNext]_vars

\* ------------------------------------------------------------ the claims
RunIds == 1..Len(runs)

\* Run r has settled every fetch it was to issue.
Settled(r) == runs[r].publishedAt # 0

\* The step publishes the result of run r.
Publishes(r) == runs[r].publishedAt = 0 /\ runs'[r].publishedAt # 0

\* The step starts a run.
Starts == Len(runs') > Len(runs)

\* The runs whose published result data holds.
Publishers == {r \in RunIds : Settled(r) /\ runs[r].publishedAt = data.lastUpdated}

\* The adapters of run r that have failed.
FailedAdapters(run) ==
  (IF run.tri = "failed" THEN {"tri"} ELSE {})
  \cup (IF run.api = "failed" THEN {"api"} ELSE {})

Contains(list, x) == \E i \in 1..Len(list) : list[i] = x

\* list[k] follows a record of the same name whose distance is within the
\* tolerance of its own.
HasEarlierMatch(list, k) ==
  \E j \in 1..(k - 1) :
    /\ list[j].name = list[k].name
    /\ IsNumber(list[j].distance) /\ IsNumber(list[k].distance)
    /\ Abs(list[j].distance - list[k].distance) < DedupeTolerance

\* C1: whichever adapters of a run fail, the other adapter is still invoked,
\* the result is published only once every adapter has settled, and every
\* record of an adapter that succeeded (every record handed to the duplicate
\* filter that is no later duplicate) is in the published result.
C1_FailureIsolation ==
  \A r \in Publishers :
    /\ runs[r].tri \in {"ok", "failed", "skipped"}
    /\ runs[r].api \in {"ok", "failed"}
    /\ runs[r].apiCalls = 1
    /\ runs[r].triCalls = IF runs[r].tri = "skipped" THEN 0 ELSE 1
    /\ \A k \in 1..Len(merged) :
         Contains(data.toxicFacilities, merged[k]) \/ HasEarlierMatch(merged, k)

C3_LatestRunWins ==
  (/\ runs # <<>>
   /\ \A r \in RunIds : Settled(r)
   /\ \A r \in 1..(Len(runs) - 1) : runs[r].loc # runs[Len(runs)].loc)
    => runs[Len(runs)].publishedAt = data.lastUpdated

C5_AllFailedPublishesEmpty ==
  [][\A r \in RunIds :
       (~Settled(r) /\ runs'[r].tri = "failed" /\ runs'[r].api = "failed")
         => /\ Publishes(r)
            /\ data'.contaminationSites = <<>>
            /\ data'.toxicFacilities = <<>>
            /\ data'.waterViolations = <<>>
            /\ Len(data'.errors) = NumAdapters
            /\ ~data'.loading
            /\ data'.lastUpdated = runs'[r].publishedAt]_vars

\* data holds the result of a run both of whose adapters failed.
C5_Witness ==
  \E r \in Publishers :
    /\ runs[r].tri = "failed" /\ runs[r].api = "failed"
    /\ Len(data.errors) = NumAdapters
    /\ data.toxicFacilities = <<>>

\* C6: in a run each adapter's fetch is issued at most once; while the run is
\* in flight its errors hold one entry for each adapter that has failed, and
\* the errors it publishes hold one entry for each adapter that failed.
C6_OneErrorPerFailedAdapter ==
  /\ [](\A r \in RunIds :
          /\ runs[r].triCalls <= 1 /\ runs[r].apiCalls <= 1
          /\ ~Settled(r)
               => Len(runs[r].errors) = Cardinality(FailedAdapters(runs[r])))
  /\ [][\A r \in RunIds :
          Publishes(r)
            => Len(data'.errors) = Cardinality(FailedAdapters(runs'[r]))]_vars

\* data holds the result of a run whose extract adapter failed and whose API
\* adapter succeeded: one error.
C6_Witness ==
  \E r \in Publishers :
    /\ runs[r].tri = "failed" /\ runs[r].api = "ok"
    /\ runs[r].triCalls = 1 /\ runs[r].apiCalls = 1
    /\ Len(data.errors) = 1

\* C7: every site of contaminationSites and toxicFacilities in data has a
\* numeric distance >= 0 and the risk level its category's classifier gives
\* for that distance.
C7_SitesClassifiedByDistance ==
  /\ \A i \in 1..Len(data.contaminationSites) :
       LET site == data.contaminationSites[i]
       IN /\ IsNumber(site.distance) /\ site.distance >= 0
          /\ site.riskLevel \in RiskLevels
          /\ site.riskLevel = CerclisRisk(site.distance)
  /\ \A i \in 1..Len(data.toxicFacilities) :
       LET site == data.toxicFacilities[i]
       IN /\ IsNumber(site.distance) /\ site.distance >= 0
          /\ site.riskLevel \in RiskLevels
          /\ site.riskLevel = TriRisk(site.distance)

C9_OnlyLaterDuplicatesDropped ==
  fnOp = "dedupe"
    => \A k \in 1..Len(fnIn) :
         ~HasEarlierMatch(fnIn, k) => Contains(fnOut, fnIn[k])

\* The radius and the cap of the adapter last applied.
FnRadius ==
  CASE fnOp = "tri" -> TriRadius
    [] fnOp = "cerclis" -> CerclisRadius
    [] fnOp = "lust" -> LustRadius
    [] OTHER -> 0

FnCap ==
  CASE fnOp = "tri" -> TriCap
    [] fnOp = "cerclis" -> CerclisCap
    [] fnOp = "lust" -> LustCap
    [] OTHER -> 0

\* The distance from fnLoc of input row k of the adapter last applied, NaN
\* when the row lacks a field the adapter requires.
FnSourceDistance(k) ==
  LET row == fnIn[k]
  IN IF fnOp = "tri"
     THEN IF Len(row) = Len(HeaderLine) /\ IsNumber(row[2]) /\ IsNumber(row[3])
             /\ row[2] # 0 /\ row[3] # 0
          THEN calculateDistance(fnLoc.lat, fnLoc.lng, row[2], row[3])
          ELSE NaN
     ELSE IF IsNumber(row.lat) /\ IsNumber(row.lon)
             /\ (fnOp = "cerclis" => row.name # "")
          THEN calculateDistance(fnLoc.lat, fnLoc.lng, row.lat, row.lon)
          ELSE NaN

\* The same for a row the adapter examines, NaN for a data line of the
\* extract past the last one the row loop reads.
FnRowDistance(k) ==
  IF fnOp = "tri" /\ k > TriScanCap THEN NaN ELSE FnSourceDistance(k)

FnQualifying ==
  {k \in 1..Len(fnIn) :
     IsNumber(FnSourceDistance(k)) /\ FnSourceDistance(k) <= FnRadius}

\* The distance of an upstream row from the coordinates of the query.
HandlerRowDistance(row) ==
  calculateDistance(fnLoc.lat, fnLoc.lng, row.lat, row.lon)

\* list, a list of the API function's result, keeps the nearest of rows:
\* no row within the radius that it leaves out is strictly nearer than a row
\* it returns.
HandlerKeepsNearest(list, rows) ==
  /\ Len(list) <= HandlerCap
  /\ \A k \in 1..Len(rows) : \A j \in 1..Len(rows) :
       (/\ IsNumber(HandlerRowDistance(rows[k]))
        /\ HandlerRowDistance(rows[k]) <= HandlerRadius
        /\ ~\E i \in 1..Len(list) : list[i].id = rows[k].id
        /\ \E i \in 1..Len(list) : list[i].id = rows[j].id)
         => ~(HandlerRowDistance(rows[k]) < HandlerRowDistance(rows[j]))

\* C11: each adapter returns at most as many records as its cap, and no
\* qualifying record of its source that it leaves out is strictly nearer to
\* the origin than a record it returns: for the adapters that compute
\* distances, every qualifying input row nearer than some returned record is
\* among the returned records; for the API function, whose records carry
\* the id of their row, no row left out is nearer than a row returned.
C11_CapKeepsNearest ==
  /\ fnOp \in {"tri", "cerclis", "lust"}
       => /\ Len(fnOut) <= FnCap
          /\ \A k \in FnQualifying :
               (\E i \in 1..Len(fnOut) : FnSourceDistance(k) < fnOut[i].distance)
                 => Cardinality({i \in 1..Len(fnOut) :
                                   fnOut[i].distance <= FnSourceDistance(k)})
                      >= Cardinality({j \in FnQualifying :
                                        FnSourceDistance(j) <= FnSourceDistance(k)})
  /\ (fnOp = "handler" /\ fnOut.statusCode = 200)
       => /\ HandlerKeepsNearest(fnOut.superfundSites, fnIn.superfund.rows)
          /\ HandlerKeepsNearest(fnOut.triSites, fnIn.tri.rows)
          /\ HandlerKeepsNearest(fnOut.waterViolations, fnIn.water.rows)

\* The tier of distance d under strict thresholds high and medium: High
\* below high, Medium from high to below medium, Low otherwise.
Tier(d, high, medium) ==
  IF IsNumber(d) /\ d < high THEN "High"
  ELSE IF IsNumber(d) /\ d < medium THEN "Medium" ELSE "Low"

\* C12 as stated: the risk level of a distance is one of the three tiers, by
\* strict thresholds: 0.5 and 1.0 mile for contaminated sites, 0.25 and 0.5
\* for leaking tanks, 1 and 5 for toxic-release facilities, those of the
\* remote query adapter included.
C12_StrictThresholds ==
  fnOp = "classify"
    => /\ fnOut \in RiskLevels
       /\ fnOut = CASE fnIn.category = "cerclis" -> Tier(fnIn.distance, 50, 100)
                    [] fnIn.category = "lust" -> Tier(fnIn.distance, 25, 50)
                    [] OTHER -> Tier(fnIn.distance, 100, 500)

\* C12 amended: the same, but the toxic-release facilities of the remote
\* query adapter are High below 0.5 mile and Medium from 0.5 to below 1.5.
C12_ThresholdsByAdapter ==
  fnOp = "classify"
    => /\ fnOut \in RiskLevels
       /\ fnOut = CASE fnIn.category = "cerclis" -> Tier(fnIn.distance, 50, 100)
                    [] fnIn.category = "lust" -> Tier(fnIn.distance, 25, 50)
                    [] fnIn.category = "tri" -> Tier(fnIn.distance, 100, 500)
                    [] OTHER -> Tier(fnIn.distance, 50, 150)

\* A facility of the extract at exactly 1 mile was classified Medium.
C12_Witness ==
  /\ fnOp = "classify"
  /\ fnIn.category = "tri" /\ fnIn.distance = TriHigh
  /\ fnOut = "Medium"

\* C13: every water violation of data has riskLevel High when its source
\* record carries the health-based indicator and Medium otherwise, never
\* Low, whatever else the record holds.
C13_WaterRiskFromIndicator ==
  \A i \in 1..Len(data.waterViolations) :
    LET violation == data.waterViolations[i]
    IN /\ violation.riskLevel \in {"High", "Medium"}
       /\ violation.riskLevel
            = IF violation.healthBased THEN "High" ELSE "Medium"

\* lines are the lines of an extract that holds one facility 0.3 miles from
\* LocMD and one 20 miles from it, in either order.
HoldsNearAndFar(lines) ==
  /\ Len(lines) = 3
  /\ lines[1] = HeaderLine
  /\ {lines[2], lines[3]} = ExtractRows
  /\ lines[2] # lines[3]

MadeOfRows(list, rows) ==
  \A i \in 1..Len(list) :
    /\ list[i].error = ""
    /\ \E k \in 1..Len(rows) : list[i] = HandlerRecord(rows[k])

\* C15: a failed fetch is represented only by a text in errors: whatever
\* fails, the lists of the API function's result hold only records made of
\* rows of the upstream's answers, and the lists a run of the loader
\* publishes hold only sites of the extract and records of the API's result,
\* none of either after the fetch of that source has failed.
C15_NoPlaceholderRecords ==
  /\ fnOp = "handler"
       => /\ MadeOfRows(fnOut.superfundSites, fnIn.superfund.rows)
          /\ MadeOfRows(fnOut.triSites, fnIn.tri.rows)
          /\ MadeOfRows(fnOut.waterViolations, fnIn.water.rows)
  /\ fnOp = "run"
       => /\ fnOut.contaminationSites = fnIn.api.result.superfundSites
          /\ fnOut.waterViolations = fnIn.api.result.waterViolations
          /\ \A i \in 1..Len(fnOut.toxicFacilities) :
               IF IsApiSite(fnOut.toxicFacilities[i])
               THEN fnIn.api.kind = "json"
               ELSE /\ fnIn.tri.kind = "text"
                    /\ \E k \in 2..Len(fnIn.tri.lines) :
                         fnIn.tri.lines[k][1] = fnOut.toxicFacilities[i].name
          /\ (fnIn.api.kind # "json")
               => \E i \in 1..Len(fnOut.errors) :
                    fnOut.errors[i][1] = "API data partially unavailable"

\* The upstream answers of the API function that are a status that is not
\* OK or a body that is not JSON.
HandlerBadAnswers ==
  {x \in {fnIn.superfund, fnIn.tri, fnIn.water} :
     x.kind \in {"status", "badjson"}}

\* C16: a remote query answered with a status that is not 2xx or a body that
\* is not JSON ends in an error outcome, never in success with data: the
\* proxy function and the API function respond with an error status, and the
\* CERCLIS step of the loader records an error and no site.
C16_BadAnswerIsError ==
  /\ (/\ fnOp = "epaData" /\ fnCount = 1 /\ fnIn.upstream.kind = "end"
      /\ (fnIn.upstream.status # 200 \/ ~IsJSON(fnIn.upstream.body)))
       => fnOut.statusCode >= 400 /\ fnOut.error # "" /\ fnOut.body = ""
  /\ (fnOp = "handler" /\ fnCount > 0 /\ HandlerBadAnswers # {})
       => fnOut.statusCode >= 400 /\ fnOut.error # ""
  /\ (/\ fnOp = "cerclisStep" /\ fnIn.kind = "end"
      /\ (fnIn.status # 200 \/ ~IsJSON(fnIn.body)))
       => fnOut.errors # <<>> /\ fnOut.contaminationSites = <<>>

\* C17: the aggregation invoked without a latitude or without a longitude
\* answers with an explicit precondition error and issues no fetch: the API
\* functions respond with an error status and a message, and the loader
\* records an error.
C17_MissingCoordinatesRejected ==
  /\ (fnOp \in {"handler", "epaApi"}
        /\ (fnLoc.lat = Blank \/ fnLoc.lng = Blank))
       => fnOut.statusCode >= 400 /\ fnOut.error # "" /\ fnCount = 0
  /\ fnOp = "skipped" => fnOut.errors # <<>> /\ fnCount = 0

\* Input row k of the extract adapter is malformed: too short, without a
\* latitude or a longitude, or with one that parses to 0 or to NaN.
Malformed(k) ==
  \/ Len(fnIn[k]) < Len(HeaderLine)
  \/ \E c \in {2, 3} : fnIn[k][c] \in {0, NaN, Blank}

\* The site loadTRIData makes of input row k, a row that is not malformed.
FnRowSite(k) ==
  [name |-> IF fnIn[k][1] # "" THEN fnIn[k][1] ELSE "Unknown Facility",
   type |-> "TRI - Toxic Release Inventory",
   distance |-> FnRowDistance(k),
   riskLevel |-> Tier(FnRowDistance(k), 100, 500)]

\* The rows the extract adapter examines that are well formed and within
\* the radius.
FnContributing ==
  {k \in 1..Len(fnIn) :
     ~Malformed(k) /\ IsNumber(FnRowDistance(k))
       /\ FnRowDistance(k) <= TriRadius}

\* C18: the extract adapter, given at least one data row, throws no error
\* whatever rows are malformed; a malformed row contributes no record, and
\* the rows around it are processed all the same: every record returned is
\* the site of a well-formed examined row within the radius, and as many
\* are returned as there are such rows, up to the cap.
C18_MalformedRowsSkipped ==
  (fnOp = "tri" /\ fnIn # <<>>)
    => /\ fnErr = ""
       /\ \A i \in 1..Len(fnOut) :
            \E k \in FnContributing : fnOut[i] = FnRowSite(k)
       /\ Len(fnOut) = Min(TriCap, Cardinality(FnContributing))

\* An extract of a line cut short, a line whose latitude is no number and
\* the line of a facility nearby yielded that facility.
C18_Witness ==
  /\ fnOp = "tri" /\ Len(fnIn) = 3
  /\ Len(fnIn[1]) < Len(HeaderLine)
  /\ Len(fnIn[2]) = Len(HeaderLine) /\ fnIn[2][2] = NaN
  /\ ~Malformed(3)
  /\ fnErr = ""
  /\ Len(fnOut) = 1 /\ fnOut[1] = FnRowSite(3)

\* C19: the row loop of the extract adapter ends after examining at most
\* 1000 data rows, however long the extract: it examines the first 1000 rows
\* or all of them if they are fewer, counting each whether the row is
\* skipped or yields a site, and no record comes of a later row.
C19_ScanCapped ==
  fnOp = "tri"
    => /\ fnCount <= 1000
       /\ fnCount = Min(Len(fnIn), 1000)
       /\ \A i \in 1..Len(fnOut) :
            \E k \in 1..Min(Len(fnIn), 1000) :
              ~Malformed(k) /\ fnOut[i] = FnRowSite(k)

\* Of an extract of 1001 rows, all cut short but a facility on row 1000 and
\* a nearer one on row 1001, the adapter examined 1000 rows and returned the
\* facility of row 1000 alone.
C19_Witness ==
  /\ fnOp = "tri"
  /\ Len(fnIn) = TriScanCap + 1
  /\ fnCount = TriScanCap
  /\ Malformed(1)
  /\ ~Malformed(TriScanCap) /\ ~Malformed(TriScanCap + 1)
  /\ fnOut = <<FnRowSite(TriScanCap)>>

\* Character i of the line handed to parseCSVLine is inside a quoted
\* section: an odd number of quotes precede it.
InsideQuotes(i) ==
  Cardinality({j \in 1..(i - 1) : fnIn[j] = "\""}) % 2 = 1

\* The commas of the line that are not inside a quoted section.
OutsideCommas == {i \in 1..Len(fnIn) : fnIn[i] = "," /\ ~InsideQuotes(i)}

\* C20: parseCSVLine splits a line only at the commas outside double
\* quotes: it returns one field more than there are such commas, and every
\* comma inside a quoted section is in the text of the field it belongs to,
\* the field that follows as many commas outside quotes as precede it.
C20_SplitsOutsideQuotes ==
  fnOp = "parse"
    => /\ Len(fnOut) = 1 + Cardinality(OutsideCommas)
       /\ \A f \in 1..Len(fnOut) :
            Cardinality({c \in 1..Len(fnOut[f]) : fnOut[f][c] = ","})
              = Cardinality({i \in 1..Len(fnIn) :
                               /\ fnIn[i] = "," /\ InsideQuotes(i)
                               /\ Cardinality({j \in OutsideCommas : j < i})
                                    = f - 1})

\* The line "a,a" in quotes came back as the one field a,a.
C20_Witness ==
  /\ fnOp = "parse"
  /\ fnIn = <<"\"", "a", ",", "a", "\"">>
  /\ fnOut = << <<"a", ",", "a">> >>

StrictEq(a, b) == IsNumber(a) /\ IsNumber(b) /\ a = b

\* C22: for all coordinates a and b, calculateDistance(a, a) is 0 and
\* calculateDistance(a, b) equals calculateDistance(b, a).
C22_ZeroAndSymmetric ==
  fnOp = "distance"
    => /\ StrictEq(fnOut[3], 0)
       /\ StrictEq(fnOut[1], fnOut[2])

\* Record k of the list handed to the duplicate filter is in its output, or
\* the output holds a record of its name with a distance within the tolerance
\* of its own.
KeptOrMatched(k) ==
  \E o \in 1..Len(fnOut) :
    \/ fnOut[o] = fnIn[k]
    \/ /\ fnOut[o].name = fnIn[k].name
       /\ IsNumber(fnOut[o].distance) /\ IsNumber(fnIn[k].distance)
       /\ Abs(fnOut[o].distance - fnIn[k].distance) < DedupeTolerance

\* C23: every record the duplicate filter drops has a matching record (same
\* name, distance within 0.1 mile) in the output; no record is dropped only
\* for matching an earlier record that was itself dropped.
C23_DroppedHasRetainedMatch ==
  fnOp = "dedupe" => \A k \in 1..Len(fnIn) : KeptOrMatched(k)

\* C24: the output of the duplicate filter holds no two records of one name
\* whose distances differ by less than 0.1 mile, and the filter applied to
\* its own output returns that output.
C24_DedupeIdempotent ==
  fnOp = "dedupe"
    => /\ \A i \in 1..Len(fnOut) : \A j \in 1..Len(fnOut) :
            i # j => ~SameFacility(fnOut[i], fnOut[j])
       /\ \A i \in 1..Len(fnOut) : \A j \in 1..Len(fnOut) :
            (i # j /\ fnOut[i].name = fnOut[j].name)
              => Abs(fnOut[i].distance - fnOut[j].distance) >= DedupeTolerance
       /\ uniqueToxicFacilities(fnOut) = fnOut

\* Of three facilities of one name the filter dropped the second and kept
\* the first and the third, 0.1 mile or more apart.
C24_Witness ==
  /\ fnOp = "dedupe" /\ Len(fnIn) = 3
  /\ fnIn[1].name = fnIn[2].name /\ fnIn[2].name = fnIn[3].name
  /\ fnOut = <<fnIn[1], fnIn[3]>>
  /\ fnIn[2] # fnIn[1] /\ fnIn[2] # fnIn[3]

\* C25: loading is set in every state in which a run is in flight; when two
\* runs overlap, the run that publishes first does not clear loading while
\* the other has yet to publish.
C25_LoadingWhileInFlight ==
  (\E r \in RunIds : ~Settled(r)) => data.loading

\* C26: in App.tsx, whenever dataLoaded is set and no load is in progress,
\* dataLoader holds the state of the location shown; dataLoaded is never
\* left set from an earlier location.
C26_LoadedMeansCurrentState ==
  (dataLoaded /\ ~dataLoading /\ calls = <<>>)
    => isStateLoaded(loadedStates, appLocation)

\* Each site of the list is no farther than the site that follows it.
NonDecreasing(list) ==
  \A i \in 1..(Len(list) - 1) : LessEq(list[i].distance, list[i + 1].distance)

\* C27: contaminationSites and toxicFacilities of a result are each in
\* non-decreasing order of distance as a whole, the sites of a second source
\* merged into them included.
C27_ListsSortedAsAWhole ==
  /\ fnOp = "run"
       => /\ NonDecreasing(fnOut.contaminationSites)
          /\ NonDecreasing(fnOut.toxicFacilities)
  /\ fnOp = "contamination" => NonDecreasing(fnOut)

\* The request handed to the proxy function asks for an endpoint it serves,
\* with GET and with a state.
Served(event) ==
  /\ event.httpMethod = "GET"
  /\ event.endpoint \in {"superfund", "tri"}
  /\ event.state # ""

\* C28: the proxy function issues a request to the EPA service only for a
\* GET with an endpoint and a state whose endpoint is superfund or tri;
\* otherwise it answers without one: 200 and an empty body to OPTIONS, 405 to
\* any other method but GET, 400 to a missing endpoint or state, 400 to an
\* unknown endpoint, in this order; every response has the CORS headers.
C28_ValidatesBeforeRequest ==
  fnOp = "epaData"
    => LET event == fnIn.event
       IN /\ fnCount = (IF Served(event) THEN 1 ELSE 0)
          /\ fnOut.headers.allowOrigin = "*"
          /\ fnOut.headers.allowMethods = "GET, POST, OPTIONS"
          /\ event.httpMethod = "OPTIONS"
               => fnOut.statusCode = 200 /\ fnOut.body = "" /\ fnOut.error = ""
          /\ event.httpMethod \notin {"OPTIONS", "GET"}
               => fnOut.statusCode = 405
          /\ (event.httpMethod = "GET"
                /\ (event.endpoint = "" \/ event.state = ""))
               => /\ fnOut.statusCode = 400
                  /\ fnOut.error
                       = "Missing required parameters: endpoint and state"
          /\ (event.httpMethod = "GET" /\ event.endpoint # ""
                /\ event.state # "" /\ ~Served(event))
               => fnOut.statusCode = 400 /\ fnOut.error = "Invalid endpoint"
          /\ Served(event) => fnOut.statusCode \in {200, 500}

\* A POST without an endpoint was answered 405 with no request issued.
C28_Witness ==
  /\ fnOp = "epaData"
  /\ fnIn.event.httpMethod = "POST" /\ fnIn.event.endpoint = ""
  /\ fnOut.statusCode = 405 /\ fnCount = 0

\* C29: in the test-location App the loader is rendered only while a
\* location is selected and isLoading is false; a location is selected only
\* while none is; no selection is made while the timer of an earlier one is
\* pending, so the timer that expires is that of the latest selection.
C29_NoStaleTimer ==
  /\ [](/\ mounted => (testLocation # 0 /\ ~isLoading)
        /\ timers \subseteq {Len(selected)})
  /\ [][/\ Len(selected') > Len(selected)
            => (testLocation = 0 /\ timers = {})
        /\ timers' # timers /\ Len(selected') = Len(selected)
            => (timers \ timers' = {Len(selected)} /\ isLoading)]_vars

\* The second selection's timer has expired and the loader is rendered for
\* the second location selected, after the first was cleared.
C29_Witness ==
  /\ Len(selected) = 2
  /\ timers = {}
  /\ mounted
  /\ testLocation = selected[2]
  /\ selected[1] # selected[2]

\* The errors hold an entry of the extract adapter.
HasTriError(errors) ==
  \E i \in 1..Len(errors) : errors[i][1] = "TRI data unavailable"

\* C30: for a location without a state the extract adapter issues no fetch
\* and returns no facility, the run records no error for it, and the API is
\* still queried, with the coordinates of the location.
C30_NoStateSkipsExtract ==
  \A r \in RunIds :
    runs[r].loc.state = ""
      => /\ runs[r].tri = "skipped" /\ runs[r].triCalls = 0
         /\ runs[r].toxicFacilities = <<>>
         /\ ~HasTriError(runs[r].errors)
         /\ runs[r].apiCalls = 1
         /\ runs[r].apiQuery = [lat |-> runs[r].loc.lat, lon |-> runs[r].loc.lng]
         /\ r \in Publishers
              => /\ ~HasTriError(data.errors)
                 /\ \A k \in 1..Len(merged) : IsApiSite(merged[k])

\* data holds the result of a run for a location without a state: the sites
\* and violations of the API, no facility and no error.
C30_Witness ==
  \E r \in Publishers :
    /\ runs[r].loc.state = "" /\ runs[r].api = "ok"
    /\ runs[r].triCalls = 0 /\ runs[r].apiCalls = 1
    /\ data.contaminationSites # <<>>
    /\ data.toxicFacilities = <<>> /\ data.errors = <<>>
    /\ merged # <<>>

====
